---- MODULE Spec2Model ----
(***************************************************************************)
(* Schedulability tests of feasibility_tests.c (completion-time test,      *)
(* scheduling-point test, RM least upper bound, EDF and LLF utilization    *)
(* tests), driven the way main() drives them: the tests are called in turn *)
(* on one task set and the verdict each returns is printed (Spec).  The    *)
(* two iterative tests run step by step; the caller repeats the calls on   *)
(* the same arrays once.  RmSpec applies the utilization tests alone.      *)
(*                                                                         *)
(* U32_T values are Width-bit unsigned integers.  double values are kept   *)
(* exactly: a non-negative double x is the natural number x * 2^FracBits,  *)
(* and every double operation rounds its exact result to DBL_MANT_DIG      *)
(* significant bits, ties to even, as IEEE-754 division and addition do.   *)
(* What a build makes of an out-of-range conversion or of an int overflow  *)
(* is chosen when it first matters and kept for the rest of the run.       *)
(*                                                                         *)
(* RtosSpec and UartSpec are the sequencer of freertos_demo.c: the timer   *)
(* interrupt that releases the four service tasks whatever they are doing, *)
(* and the tasks step by step.  RtosSpec follows a run in which no byte is *)
(* received up to the abort and the end of the tasks; UartSpec follows the *)
(* first sequencer periods with the UART receive interrupt that stores a   *)
(* byte for the tasks.  RtosFairSpec is RtosSpec under fair scheduling.    *)
(***************************************************************************)
EXTENDS Integers, Sequences, FiniteSets

\* ------------------------------------------------------------ bounds
\* Width of U32_T in the model (32 in the build).
Width == 5
\* Largest number of services of an enumerated task set.
MaxN == 3
\* Largest period of an enumerated task set.
MaxPeriod == 3
\* Bits of one limb of the exact representation of a double.
LimbBits == 15
\* How far the wcets of the wide task sets go around their centre.
RmSpread == 3

Modulus == 2^Width
UMax == Modulus - 1

\* ------------------------------------------------------------ doubles
\* Significand bits of a double.
DBL_MANT_DIG == 53
\* Every double the tests form from U32_T operands is a multiple of
\* 2^-FracBits, with at least two bits to spare below the DBL_MANT_DIG kept
\* bits of a quotient.
FracBits == Width + DBL_MANT_DIG + 1
\* A double x >= 0 is the natural number x * 2^FracBits, written as NLimbs
\* limbs of LimbBits bits, least significant limb first.
LimbBase == 2^LimbBits
NLimbs == (FracBits + Width + 2) \div LimbBits + 1
Limbs == 1..NLimbs

\* Bit j (of weight 2^j) of x.
Bit(x, j) == (x[(j \div LimbBits) + 1] \div 2^(j % LimbBits)) % 2

\* The number of bits of x up to its leading 1.
BitLen(x) ==
    IF \A L \in Limbs : x[L] = 0 THEN 0
    ELSE LET t == CHOOSE L \in Limbs :
                      x[L] # 0 /\ \A M \in (L + 1)..NLimbs : x[M] = 0
             n == CHOOSE k \in 1..LimbBits : 2^(k - 1) <= x[t] /\ x[t] < 2^k
         IN  (t - 1) * LimbBits + n

\* w * 2^s, for w below LimbBase.
Shifted(w, s) ==
    LET q == s \div LimbBits
        v == w * 2^(s % LimbBits)
    IN  [L \in Limbs |->
            IF L - 1 = q THEN v % LimbBase
            ELSE IF L - 1 = q + 1 THEN (v \div LimbBase) % LimbBase
            ELSE 0]

\* x \div p and x % p for a small p, from limb L down with the remainder
\* rem of the limbs above it.
RECURSIVE DivSmall(_, _, _, _, _)
DivSmall(x, p, L, rem, q) ==
    IF L = 0 THEN [q |-> q, r |-> rem]
    ELSE LET cur == rem * LimbBase + x[L]
         IN  DivSmall(x, p, L - 1, cur % p, [q EXCEPT ![L] = cur \div p])

\* x + y, from limb L up with the carry of the limbs below it.
RECURSIVE AddLimbs(_, _, _, _, _)
AddLimbs(x, y, L, carry, acc) ==
    IF L > NLimbs THEN acc
    ELSE LET s == x[L] + y[L] + carry
         IN  AddLimbs(x, y, L + 1, s \div LimbBase, [acc EXCEPT ![L] = s % LimbBase])

DblZero == [L \in Limbs |-> 0]
DblOne == Shifted(1, FracBits)

\* x with its bits below bit sh cleared.
ClearBelow(x, sh) ==
    [L \in Limbs |->
        LET lo == (L - 1) * LimbBits
        IN  IF lo >= sh THEN x[L]
            ELSE IF lo + LimbBits <= sh THEN 0
            ELSE (x[L] \div 2^(sh - lo)) * 2^(sh - lo)]

\* Round to nearest, ties to even, to DBL_MANT_DIG significant bits; sticky
\* says that the exact value lies strictly above x.
Round53(x, sticky) ==
    LET n == BitLen(x)
    IN  IF n <= DBL_MANT_DIG THEN x
        ELSE LET sh     == n - DBL_MANT_DIG
                 half   == Bit(x, sh - 1) = 1
                 others == sticky \/ \E j \in 0..(sh - 2) : Bit(x, j) = 1
                 odd    == Bit(x, sh) = 1
                 t      == ClearBelow(x, sh)
             IN  IF half /\ (others \/ odd)
                 THEN AddLimbs(t, Shifted(1, sh), 1, 0, DblZero)
                 ELSE t

\* (double)w / p
DblDiv(w, p) ==
    LET d == DivSmall(Shifted(w, FracBits), p, NLimbs, 0, DblZero)
    IN  Round53(d.q, d.r # 0)

\* a + b
DblAdd(a, b) == Round53(AddLimbs(a, b, 1, 0, DblZero), FALSE)

\* Mutant of DblLeq: a < b.
DblLess(a, b) ==
    \E L \in Limbs : a[L] < b[L] /\ \A M \in (L + 1)..NLimbs : a[M] = b[M]

\* a <= b
DblLeq(a, b) ==
    \/ a = b
    \/ \E L \in Limbs : a[L] < b[L] /\ \A M \in (L + 1)..NLimbs : a[M] = b[M]

\* The hexadecimal digits of the significand of
\* numServices * (pow(2.0, 1.0/numServices) - 1.0) as printf("%a") shows
\* it, 0x1.<13 digits>p-1, for numServices = 2..6.
LubHex(n) ==
    CASE n = 2 -> <<1, 10, 8, 2, 7, 9, 9, 9, 15, 12, 14, 15, 3, 4>>
      [] n = 3 -> <<1, 8, 15, 3, 13, 1, 13, 9, 5, 0, 10, 15, 4, 2>>
      [] n = 4 -> <<1, 8, 3, 7, 15, 0, 5, 1, 8, 13, 11, 8, 10, 8>>
      [] n = 5 -> <<1, 7, 12, 10, 10, 15, 4, 3, 4, 13, 0, 0, 9, 2>>
      [] n = 6 -> <<1, 7, 8, 3, 4, 1, 2, 13, 5, 14, 1, 1, 0, 0>>

\* Bit j of the double 0x1.<digits>p-1 with the digits h.
HexBit(h, j) ==
    LET i == j - (FracBits - DBL_MANT_DIG)
    IN  IF j < FracBits - DBL_MANT_DIG \/ i >= 4 * Len(h) THEN 0
        ELSE (h[Len(h) - (i \div 4)] \div 2^(i % 4)) % 2

\* The bits lo .. lo + k - 1 of the double with the digits h, as a number.
RECURSIVE HexLimb(_, _, _)
HexLimb(h, lo, k) ==
    IF k = 0 THEN 0
    ELSE HexBit(h, lo) + 2 * HexLimb(h, lo + 1, k - 1)

\* Mutant of Lub: the bound of one service is used for any number.
LubOfOne(n) == DblOne

\* lub = numServices * (pow(2.0, 1.0 / numServices) - 1.0)
Lub(n) ==
    IF n = 1 THEN DblOne
    ELSE [L \in Limbs |-> HexLimb(LubHex(n), (L - 1) * LimbBits, LimbBits)]

\* ------------------------------------------------------------ U32_T
\* A C array as a function on 0..Len(s)-1.
Arr(s) == [k \in 0..(Len(s) - 1) |-> s[k + 1]]

\* U32_T + U32_T and U32_T * U32_T (unsigned arithmetic wraps).
AddU32(a, b) == (a + b) % Modulus
MulU32(a, b) == (a * b) % Modulus

\* Mutant of CeilDiv: the quotient is truncated.
CeilDivTruncates(a, p) == a \div p

\* ceil((double)a / p) and floor((double)a / p): the quotient of two U32_T
\* values is never rounded across an integer, so both are the integer ones.
CeilDiv(a, p) == (a + p - 1) \div p
FloorDiv(a, p) == a \div p

\* What a build makes of a double beyond the range of U32_T when it is
\* stored into one (undefined behaviour): the low bits of a wider
\* conversion, or the largest U32_T.
ConvModes == {"wrap", "saturate"}

\* The U32_T a double x >= 0 with an integer value is stored as.
Conv(x, mode) ==
    IF x <= UMax THEN x
    ELSE IF mode = "wrap" THEN x % Modulus ELSE UMax

\* ------------------------------------------------------------ utilization tests
\* Mutant of UtilitySum: the loop stops one service early.
RECURSIVE UtilitySumSkipsLast(_, _, _, _, _)
UtilitySumSkipsLast(idx, sum, numServices, period, wcet) ==
    IF idx >= numServices - 1 THEN sum
    ELSE UtilitySumSkipsLast(idx + 1, DblAdd(sum, DblDiv(wcet[idx], period[idx])),
                             numServices, period, wcet)

\* utility_sum after the loop over idx = from..numServices-1, from sum.
RECURSIVE UtilitySum(_, _, _, _, _)
UtilitySum(idx, sum, numServices, period, wcet) ==
    IF idx >= numServices THEN sum
    ELSE UtilitySum(idx + 1, DblAdd(sum, DblDiv(wcet[idx], period[idx])),
                    numServices, period, wcet)

\* With numServices == 0, 1.0 / numServices is infinite and lub, 0 times
\* infinity, is not a number.
LubIsNaN(n) == n = 0

\* utility_sum <= lub, false when lub is not a number.
rate_monotonic_least_upper_bound(numServices, period, wcet, deadline) ==
    IF LubIsNaN(numServices) THEN FALSE
    ELSE DblLeq(UtilitySum(0, DblZero, numServices, period, wcet), Lub(numServices))

edf_feasibility(numServices, period, wcet) ==
    DblLeq(UtilitySum(0, DblZero, numServices, period, wcet), DblOne)

llf_feasibility(numServices, period, wcet) ==
    DblLeq(UtilitySum(0, DblZero, numServices, period, wcet), DblOne)

\* ------------------------------------------------------------ scheduling point test
\* Mutant of Demand: the loop over j leaves out task i itself.
RECURSIVE DemandSkipsOwn(_, _, _, _, _, _, _)
DemandSkipsOwn(mode, j, temp, i, t, period, wcet) ==
    IF j >= i THEN temp
    ELSE DemandSkipsOwn(mode, j + 1, Conv(temp + wcet[j] * CeilDiv(t, period[j]), mode),
                        i, t, period, wcet)

\* temp after the loop over j = from..i at the point t.
RECURSIVE Demand(_, _, _, _, _, _, _)
Demand(mode, j, temp, i, t, period, wcet) ==
    IF j > i THEN temp
    ELSE Demand(mode, j + 1, Conv(temp + wcet[j] * CeilDiv(t, period[j]), mode),
                i, t, period, wcet)

\* int is the signed type of the width of U32_T.
IntMax == 2^(Width - 1) - 1
IntMin == 0 - 2^(Width - 1)

\* What a build makes of l++ at l == INT_MAX (undefined behaviour): the
\* counter wraps to INT_MIN, or it is kept in a wider register and goes on.
IntModes == {"wrap", "wide"}

\* l after l++.
Incr(l, m) == IF l = IntMax /\ m = "wrap" THEN IntMin ELSE l + 1

\* An int converted to U32_T, as in l * period[k].
IntToU32(l) == l % Modulus

\* temp after the loop over j at the point l * period[k] for task i, and the
\* test of the point: temp <= (l * period[k]).
PointDemand(mode, i, k, l, period, wcet) ==
    Demand(mode, 0, 0, i, MulU32(IntToU32(l), period[k]), period, wcet)

PointOk(mode, i, k, l, period, wcet) ==
    PointDemand(mode, i, k, l, period, wcet) <= MulU32(IntToU32(l), period[k])

\* Mutant of SpLimit: the loop over l stops one point early.
SpLimitStrict(i, k, period) == FloorDiv(period[i], period[k]) - 1

\* floor((double)period[i] / period[k]), the bound of the loop over l.
SpLimit(i, k, period) == FloorDiv(period[i], period[k])

\* ------------------------------------------------------------ completion time test
\* an after the loop over j = 0..i that seeds it.
RECURSIVE CtSeedSum(_, _, _, _)
CtSeedSum(j, an, i, wcet) ==
    IF j > i THEN an ELSE CtSeedSum(j + 1, AddU32(an, wcet[j]), i, wcet)

\* anext after the loop over j = from..i-1.
RECURSIVE CtNext(_, _, _, _, _, _, _)
CtNext(mode, j, anext, i, an, period, wcet) ==
    IF j >= i THEN anext
    ELSE CtNext(mode, j + 1, Conv(anext + CeilDiv(an, period[j]) * wcet[j], mode),
                i, an, period, wcet)

\* ------------------------------------------------------------ task sets
\* The reference example of the source.
ex2_period == Arr(<<2, 5, 7, 13>>)
ex2_wcet == Arr(<<1, 1, 1, 2>>)

TaskSet(n, p, w, d) ==
    [numServices |-> n, period |-> p, wcet |-> w, deadline |-> d]

\* (period, wcet) with 1 <= wcet <= period <= MaxPeriod.
PeriodWcet == {pw \in (1..MaxPeriod) \X (1..MaxPeriod) : pw[2] <= pw[1]}

\* The reference example as main() passes it (the periods as deadlines); a
\* set of utilization exactly 1 whose sum of quotients is not 1.0; a set
\* with a deadline before the end of the period.
ExampleSets ==
    {TaskSet(4, ex2_period, ex2_wcet, ex2_period),
     TaskSet(3, Arr(<<14, 28, 28>>), Arr(<<9, 9, 1>>), Arr(<<14, 28, 28>>)),
     TaskSet(2, Arr(<<2, 4>>), Arr(<<1, 2>>), Arr(<<2, 3>>))}

\* ------------------------------------------------------------ state
VARIABLES numServices, period, wcet, deadline,  \* the task set under test
          pc,                                   \* where the run is
          i, an,                                \* completion_time_feasibility's locals
          si, sk, sl, status, rc,               \* scheduling_point_feasibility's locals
          ct, rm, edf, llf, sp,                 \* the verdict printed for each test
          conv, ovf,                            \* what the build has made of an overflow
          round, first,                         \* the caller: which round of calls, and
                                                \* the verdicts of the first round
          seqCnt, abortS, semaphore,            \* freertos_demo.c: the sequencer count, the
          semaphoreUART, serviceData,           \* abort flags, the semaphores, the timing
          task, fault,                          \* data, where each task is, and whether the
                                                \* processor has faulted
          newDataAvailable, lastReceivedByte,   \* the byte shared by UART1IntHandler and
          command, received, consumers,         \* the services, each service's copy of it,
                                                \* how many bytes were stored, and the
                                                \* services that acted on the last of them
          overruns,                             \* how often the timer has expired on a
                                                \* running service
          overwritten                           \* a store has landed in heap memory
                                                \* outside its allocation

vars == <<numServices, period, wcet, deadline, pc, i, an,
          si, sk, sl, status, rc, ct, rm, edf, llf, sp, conv, ovf, round, first,
          seqCnt, abortS, semaphore, semaphoreUART, serviceData, task, fault,
          newDataAvailable, lastReceivedByte, command, received, consumers, overruns, overwritten>>
tests == <<numServices, period, wcet, deadline, pc, i, an,
           si, sk, sl, status, rc, ct, rm, edf, llf, sp, conv, ovf, round, first>>
rtos == <<seqCnt, abortS, semaphore, semaphoreUART, serviceData, task, fault,
          newDataAvailable, lastReceivedByte, command, received, consumers, overruns, overwritten>>
uart == <<newDataAvailable, lastReceivedByte, command, received, consumers>>
input == <<numServices, period, wcet, deadline>>
caller == <<round, first>>
verdicts == [ct |-> ct, rm |-> rm, edf |-> edf, llf |-> llf, sp |-> sp]
ctLocals == <<i, an>>
spLocals == <<si, sk, sl, status, rc>>

\* What main() prints for a returned value.
Verdict(b) == IF b THEN "FEASIBLE" ELSE "INFEASIBLE"

\* The tests' variables when the run is at the place at, on the task set ts.
TestsAt(ts, at) ==
    /\ numServices = ts.numServices
    /\ period = ts.period
    /\ wcet = ts.wcet
    /\ deadline = ts.deadline
    /\ pc = at
    /\ i = 0
    /\ an = 0
    /\ si = 0 /\ sk = 0 /\ sl = 1 /\ status = 0 /\ rc = TRUE
    /\ ct = "none" /\ rm = "none" /\ edf = "none" /\ llf = "none" /\ sp = "none"
    /\ conv = "unseen" /\ ovf = "unseen"
    /\ round = 1
    /\ first = [ct |-> "none", rm |-> "none", edf |-> "none", llf |-> "none",
                sp |-> "none"]

\* The four services, in the order of their names.
ServiceIds == 1..4

\* No byte copied: the value of a service's data or command outside the
\* handling of a byte.  serial is the number of the copied byte among the
\* bytes UART1IntHandler has stored.
NoCommand == [byte |-> 0, serial |-> 0]

\* freertos_demo.c before its main() has run: nothing created or allocated.
RtosIdle ==
    /\ seqCnt = 0
    /\ abortS = [s \in ServiceIds |-> FALSE]
    /\ semaphore = [s \in ServiceIds |-> 0]
    /\ semaphoreUART = 0
    /\ serviceData = [s \in ServiceIds |-> [entries |-> 0, serviceCount |-> 0]]
    /\ task = [s \in ServiceIds |-> "none"]
    /\ fault = FALSE
    /\ newDataAvailable = FALSE
    /\ lastReceivedByte = 0
    /\ command = [s \in ServiceIds |-> NoCommand]
    /\ received = 0
    /\ consumers = {}
    /\ overruns = 0
    /\ overwritten = FALSE

\* The state in which the run of the tests is at the place at, on the
\* task set ts.
InitAt(ts, at) == TestsAt(ts, at) /\ RtosIdle

\* main() calls completion_time_feasibility first.
InitWith(ts) == InitAt(ts, "ct_for")

\* Every implicit-deadline task set of up to MaxN services with
\* wcet <= period <= MaxPeriod, in any order.
InitImplicit ==
    \E n \in 1..MaxN : \E f \in [0..(n - 1) -> PeriodWcet] :
        InitWith(TaskSet(n, [k \in 0..(n - 1) |-> f[k][1]],
                            [k \in 0..(n - 1) |-> f[k][2]],
                            [k \in 0..(n - 1) |-> f[k][1]]))

\* Every implicit-deadline task set of up to MaxN services of wcet 1, with
\* periods a little beyond MaxPeriod (the lightly loaded sets).
InitUnit ==
    \E n \in 1..MaxN : \E f \in [0..(n - 1) -> 1..(MaxPeriod + 2)] :
        InitWith(TaskSet(n, f, [k \in 0..(n - 1) |-> 1], f))

\* One service with any deadline, and one service that fills any period.
InitSingle ==
    \/ \E pw \in PeriodWcet : \E d \in 1..MaxPeriod :
           InitWith(TaskSet(1, Arr(<<pw[1]>>), Arr(<<pw[2]>>), Arr(<<d>>)))
    \/ \E p \in 1..UMax :
           InitWith(TaskSet(1, Arr(<<p>>), Arr(<<p>>), Arr(<<p>>)))

InitExample == \E ts \in ExampleSets : InitWith(ts)

\* (period, wcet, deadline) with a positive period, wcet <= period,
\* deadline <= period and a wcet or a deadline of 0.
ZeroTasks ==
    {t \in (1..2) \X (0..2) \X (0..2) :
        t[2] <= t[1] /\ t[3] <= t[1] /\ (t[2] = 0 \/ t[3] = 0)}

\* (period, wcet, deadline) with 1 <= wcet <= deadline <= period <= 2.
SmallTasks ==
    {t \in (1..2) \X (1..2) \X (1..2) : t[2] <= t[3] /\ t[3] <= t[1]}

\* The task sets that are no task sets: no service at all, and one or two
\* services with a wcet or a deadline of 0.
InitInvalid ==
    \/ InitWith(TaskSet(0, <<>>, <<>>, <<>>))
    \/ \E n \in 1..2 : \E f \in [0..(n - 1) -> ZeroTasks \cup SmallTasks] :
           /\ \E k \in 0..(n - 1) : f[k] \in ZeroTasks
           /\ InitWith(TaskSet(n, [k \in 0..(n - 1) |-> f[k][1]],
                                  [k \in 0..(n - 1) |-> f[k][2]],
                                  [k \in 0..(n - 1) |-> f[k][3]]))

\* (period, wcet) with wcet <= period at the ends of the range of U32_T and
\* around INT_MAX.
LargeTasks ==
    {<<1, 1>>, <<2, 1>>, <<3, 2>>, <<IntMax + 1, 1>>, <<IntMax + 3, 2>>,
     <<UMax - 1, UMax - 1>>, <<UMax, 1>>, <<UMax, UMax - 1>>, <<UMax, UMax>>}

\* Every implicit-deadline task set of one or two of the large tasks.
InitLarge ==
    \E n \in 1..2 : \E f \in [0..(n - 1) -> LargeTasks] :
        InitWith(TaskSet(n, [k \in 0..(n - 1) |-> f[k][1]],
                            [k \in 0..(n - 1) |-> f[k][2]],
                            [k \in 0..(n - 1) |-> f[k][1]]))

Init ==
    InitImplicit \/ InitUnit \/ InitSingle \/ InitExample \/ InitInvalid \/ InitLarge

\* The utilization tests only convert their operands to double, so they
\* are driven on operands as wide as a limb holds: two services whose
\* quotients are convergents of sqrt(2) - 1 (2378/5741 and 3363/8119, in
\* either order), and one service about to fill its period, each wcet up
\* to RmSpread away.
RmTaskSets ==
    LET near(w) == (w - RmSpread)..(w + RmSpread)
    IN  {TaskSet(2, Arr(<<5741, 8119>>), Arr(<<a, b>>), Arr(<<5741, 8119>>)) :
             a \in near(2378), b \in near(3363)}
        \cup {TaskSet(2, Arr(<<8119, 5741>>), Arr(<<b, a>>), Arr(<<8119, 5741>>)) :
             a \in near(2378), b \in near(3363)}
        \cup {TaskSet(1, Arr(<<5741>>), Arr(<<a>>), Arr(<<5741>>)) : a \in near(5741)}

\* A caller that applies the utilization tests alone.
RmInit == \E ts \in RmTaskSets : InitAt(ts, "rm")

\* Mutant of CtSeed: the sum is accumulated in wcet[i] itself.
CtSeedInPlace ==
    /\ pc = "ct_for" /\ i < numServices
    /\ an' = CtSeedSum(0, 0, i, wcet)
    /\ wcet' = [wcet EXCEPT ![i] = CtSeedSum(0, 0, i, wcet)]
    /\ pc' = "ct_do"
    /\ UNCHANGED <<rtos, numServices, period, deadline, caller, spLocals, i,
                   ct, rm, edf, llf, sp, conv, ovf>>

\* for (i ...) with i < numServices: an = wcet[0] + ... + wcet[i].
CtSeed ==
    /\ pc = "ct_for" /\ i < numServices
    /\ an' = CtSeedSum(0, 0, i, wcet)
    /\ pc' = "ct_do"
    /\ UNCHANGED <<rtos, input, caller, spLocals, i, ct, rm, edf, llf, sp, conv, ovf>>

\* One pass of the do-while body: anext is computed, and the loop is left
\* if anext == an.
CtIterate ==
    /\ pc = "ct_do"
    /\ \E mode \in ConvModes :
        LET anext == CtNext(mode, 0, wcet[i], i, an, period, wcet)
        IN  /\ conv \in {"unseen", mode}
            /\ conv' = IF \A m \in ConvModes :
                              CtNext(m, 0, wcet[i], i, an, period, wcet) = anext
                        THEN conv ELSE mode
            /\ IF anext = an
               THEN pc' = "ct_if" /\ an' = an
               ELSE pc' = "ct_do" /\ an' = anext
    /\ UNCHANGED <<rtos, input, caller, spLocals, i, ct, rm, edf, llf, sp, ovf>>

\* Mutant of CtReturnFalse: the failure is noted and the loop goes on.
CtReturnFalseLate ==
    /\ pc = "ct_if" /\ an > deadline[i]
    /\ ct' = Verdict(FALSE)
    /\ i' = i + 1
    /\ pc' = IF i + 1 < numServices THEN "ct_for" ELSE "rm"
    /\ UNCHANGED <<rtos, input, caller, spLocals, an, rm, edf, llf, sp, conv, ovf>>

\* if (an > deadline[i]) return FALSE;
CtReturnFalse ==
    /\ pc = "ct_if" /\ an > deadline[i]
    /\ ct' = Verdict(FALSE)
    /\ pc' = "rm"
    /\ UNCHANGED <<rtos, input, caller, spLocals, i, an, rm, edf, llf, sp, conv, ovf>>

\* The task met its deadline: i++.
CtNextTask ==
    /\ pc = "ct_if" /\ ~(an > deadline[i])
    /\ i' = i + 1
    /\ pc' = "ct_for"
    /\ UNCHANGED <<rtos, input, caller, spLocals, an, ct, rm, edf, llf, sp, conv, ovf>>

\* The for loop ends: return TRUE.
CtReturnTrue ==
    /\ pc = "ct_for" /\ ~(i < numServices)
    /\ ct' = Verdict(TRUE)
    /\ pc' = "rm"
    /\ UNCHANGED <<rtos, input, caller, spLocals, i, an, rm, edf, llf, sp, conv, ovf>>

CallRm ==
    /\ pc = "rm"
    /\ rm' = Verdict(rate_monotonic_least_upper_bound(numServices, period, wcet, deadline))
    /\ pc' = "edf"
    /\ UNCHANGED <<rtos, input, caller, spLocals, i, an, ct, edf, llf, sp, conv, ovf>>

CallEdf ==
    /\ pc = "edf"
    /\ edf' = Verdict(edf_feasibility(numServices, period, wcet))
    /\ pc' = "llf"
    /\ UNCHANGED <<rtos, input, caller, spLocals, i, an, ct, rm, llf, sp, conv, ovf>>

CallLlf ==
    /\ pc = "llf"
    /\ llf' = Verdict(llf_feasibility(numServices, period, wcet))
    /\ pc' = "sp"
    /\ UNCHANGED <<rtos, input, caller, spLocals, i, an, ct, rm, edf, sp, conv, ovf>>

\* scheduling_point_feasibility is entered: rc = TRUE, i = 0.
SpEnter ==
    /\ pc = "sp"
    /\ rc' = TRUE /\ si' = 0
    /\ pc' = "sp_for"
    /\ UNCHANGED <<rtos, input, caller, ctLocals, sk, sl, status, ct, rm, edf, llf, sp, conv, ovf>>

\* for (i ...) with i < numServices: status = 0, k = 0, l = 1.
SpTask ==
    /\ pc = "sp_for" /\ si < numServices
    /\ status' = 0 /\ sk' = 0 /\ sl' = 1
    /\ pc' = "sp_l"
    /\ UNCHANGED <<rtos, input, caller, ctLocals, si, rc, ct, rm, edf, llf, sp, conv, ovf>>

\* The point l * period[k] is within the loop bound and carries the demand:
\* status = 1, both inner loops are left, and i++.
SpPointFound ==
    /\ pc = "sp_l" /\ sl <= SpLimit(si, sk, period)
    /\ \E mode \in ConvModes :
        /\ conv \in {"unseen", mode}
        /\ PointOk(mode, si, sk, sl, period, wcet)
        /\ conv' = IF \A m \in ConvModes : PointDemand(m, si, sk, sl, period, wcet)
                                             = PointDemand(mode, si, sk, sl, period, wcet)
                    THEN conv ELSE mode
    /\ status' = 1
    /\ si' = si + 1
    /\ pc' = "sp_for"
    /\ UNCHANGED <<rtos, input, caller, ctLocals, sk, sl, rc, ct, rm, edf, llf, sp, ovf>>

\* The point is within the loop bound and does not carry the demand: l++.
SpPointMissed ==
    /\ pc = "sp_l" /\ sl <= SpLimit(si, sk, period)
    /\ \E mode \in ConvModes :
        /\ conv \in {"unseen", mode}
        /\ ~PointOk(mode, si, sk, sl, period, wcet)
        /\ conv' = IF \A m \in ConvModes : PointDemand(m, si, sk, sl, period, wcet)
                                             = PointDemand(mode, si, sk, sl, period, wcet)
                    THEN conv ELSE mode
    /\ \E m \in IntModes :
        /\ ovf \in {"unseen", m}
        /\ sl' = Incr(sl, m)
        /\ ovf' = IF sl = IntMax THEN m ELSE ovf
    /\ UNCHANGED <<rtos, input, caller, ctLocals, si, sk, status, rc, pc, ct, rm, edf, llf, sp>>

\* The loop over l ends without a point, and k < i: k++, l = 1.
SpNextK ==
    /\ pc = "sp_l" /\ ~(sl <= SpLimit(si, sk, period))
    /\ sk < si
    /\ sk' = sk + 1 /\ sl' = 1
    /\ UNCHANGED <<rtos, input, caller, ctLocals, si, status, rc, pc, ct, rm, edf, llf, sp, conv, ovf>>

\* The loop over k ends without a point: rc = FALSE, and i++.
SpTaskFails ==
    /\ pc = "sp_l" /\ ~(sl <= SpLimit(si, sk, period))
    /\ ~(sk < si)
    /\ rc' = FALSE
    /\ si' = si + 1
    /\ pc' = "sp_for"
    /\ UNCHANGED <<rtos, input, caller, ctLocals, sk, sl, status, ct, rm, edf, llf, sp, conv, ovf>>

\* The loop over i ends: return rc.
SpReturn ==
    /\ pc = "sp_for" /\ ~(si < numServices)
    /\ sp' = Verdict(rc)
    /\ pc' = "done"
    /\ UNCHANGED <<rtos, input, caller, ctLocals, spLocals, ct, rm, edf, llf, conv, ovf>>

\* The caller calls the five tests once more on the same arrays.
Repeat ==
    /\ pc = "done" /\ round = 1
    /\ first' = verdicts
    /\ round' = 2
    /\ ct' = "none" /\ rm' = "none" /\ edf' = "none" /\ llf' = "none" /\ sp' = "none"
    /\ i' = 0
    /\ pc' = "ct_for"
    /\ UNCHANGED <<rtos, input, spLocals, an, conv, ovf>>

\* A step of completion_time_feasibility.
CtStep ==
    \/ CtSeed
    \/ CtIterate
    \/ CtReturnFalse
    \/ CtNextTask
    \/ CtReturnTrue

\* A step of scheduling_point_feasibility.
SpStep ==
    \/ SpEnter
    \/ SpTask
    \/ SpPointFound
    \/ SpPointMissed
    \/ SpNextK
    \/ SpTaskFails
    \/ SpReturn

Next ==
    \/ CtStep
    \/ CallRm
    \/ CallEdf
    \/ CallLlf
    \/ SpStep
    \/ Repeat

Spec == Init /\ [][Next]_vars

\* The program runs on: a call of completion_time_feasibility or of
\* scheduling_point_feasibility that can take a step takes it.
FairSpec == Spec /\ WF_vars(CtStep) /\ WF_vars(SpStep)

\* The utilization tests applied to the wide task sets.
RmNext ==
    \/ CallRm
    \/ CallEdf
    \/ CallLlf

RmSpec == RmInit /\ [][RmNext]_vars

\* ------------------------------------------------------------ freertos_demo.c
\* estimatedMaxExecutions of each service task.
estimatedMaxExecutions == 20
\* The sequencer count from which Timer0AInterruptHandler aborts the services.
AbortCount == 1000
\* The sequencer counts between two releases of each service.
ReleaseEvery == <<20, 1, 1, 25>>
\* How far below configMAX_PRIORITIES each task is created.
PriorityBelowMax == <<2, 1, 1, 3>>
\* How far the sequencer count is followed: past the abort, and while
\* bytes are received.
MaxSeqCnt == 1003
MaxUartSeqCnt == 25
\* The bytes the Jetson sends: 0xAA for a stop sign, 0x00 for a clear path.
STOP_SIGN == 170
PATH_CLEAR == 0
\* A byte that is no command, and the bytes that are received.
OtherByte == 85
Bytes == {STOP_SIGN, PATH_CLEAR, OtherByte}
\* How many bytes are received in a run.
MaxBytes == 1
\* How many expiries of the timer before the abort find a service running.
MaxOverruns == 1

\* What InitServiceData leaves in a ServiceData: startTime and endTime of
\* maxExecutions entries each, serviceCount 0.
InitServiceData(maxExecutions) == [entries |-> maxExecutions, serviceCount |-> 0]

\* The outcomes of a store to startTime[index] or endTime[index]: inside
\* the allocation it is done; outside it (undefined behaviour) it lands in
\* other heap memory unnoticed, or the processor faults and stays in its
\* fault handler: at the store, with nothing after it executed, or (the
\* fault of a buffered store is taken late) after the statements that
\* follow the store.
StoreOutcomes(data, index) ==
    IF index < data.entries THEN {"done"} ELSE {"unnoticed", "fault", "late_fault"}

\* The outcome halts the processor; it halts it at the store.
Faults(outcome) == outcome \in {"fault", "late_fault"}
HaltsAtStore(outcome) == outcome = "fault"
\* The outcome leaves the stored value in heap memory of another owner.
Overwrites(outcome) == outcome = "unnoticed"

\* The outcomes of DeinitServiceData: vPortFree returns both blocks to the
\* heap; once a store has overwritten heap memory outside its allocation
\* (undefined behaviour: the words around a block are the allocator's) it
\* may also never return, or fault.
FreeOutcomes(damaged) ==
    IF damaged THEN {"freed", "stuck", "fault"} ELSE {"freed"}

\* main() up to vTaskStartScheduler: the binary semaphores are created
\* empty, semaphoreUART is given, the timer and the UART run, the four
\* tasks exist.
RtosInit ==
    /\ TestsAt(TaskSet(0, <<>>, <<>>, <<>>), "off")
    /\ seqCnt = 0
    /\ abortS = [s \in ServiceIds |-> FALSE]
    /\ semaphore = [s \in ServiceIds |-> 0]
    /\ semaphoreUART = 1
    /\ serviceData = [s \in ServiceIds |-> [entries |-> 0, serviceCount |-> 0]]
    /\ task = [s \in ServiceIds |-> "init"]
    /\ fault = FALSE
    /\ newDataAvailable = FALSE
    /\ lastReceivedByte = 0
    /\ command = [s \in ServiceIds |-> NoCommand]
    /\ received = 0
    /\ consumers = {}
    /\ overruns = 0
    /\ overwritten = FALSE

\* The task waits in xSemaphoreTake(..., portMAX_DELAY) for a semaphore
\* that is not available.
Blocked(s) ==
    \/ task[s] = "take" /\ semaphore[s] = 0
    \/ task[s] = "uart_take" /\ semaphoreUART = 0

Ready(s) == task[s] # "deleted" /\ ~Blocked(s)

\* The scheduler runs a ready task of the highest priority among the
\* ready ones; tasks of equal priority share the processor.
Runs(s) ==
    /\ ~fault
    /\ Ready(s)
    /\ \A t \in ServiceIds : Ready(t) => PriorityBelowMax[s] <= PriorityBelowMax[t]

\* Every task waits or is gone: the processor is idle.
Idle == \A s \in ServiceIds : ~Ready(s)

\* The timer expires on a service that is still running, before the abort.
Overrun == ~Idle /\ seqCnt + 1 < AbortCount

\* The timer interrupt, whatever the tasks are doing: seqCnt++, then from
\* AbortCount on every abort flag is set and every semaphore given, and
\* before it the semaphore of each service whose turn it is is given.  The
\* count is followed up to last, and up to MaxOverruns expiries before the
\* abort come while a service is running.
Timer0AExpiry(last) ==
    /\ ~fault
    /\ seqCnt < last
    /\ Overrun => overruns < MaxOverruns
    /\ overruns' = IF Overrun THEN overruns + 1 ELSE overruns
    /\ seqCnt' = seqCnt + 1
    /\ IF seqCnt + 1 >= AbortCount
       THEN /\ abortS' = [s \in ServiceIds |-> TRUE]
            /\ semaphore' = [s \in ServiceIds |-> 1]
       ELSE /\ abortS' = abortS
            /\ semaphore' = [s \in ServiceIds |->
                                IF (seqCnt + 1) % ReleaseEvery[s] = 0 THEN 1
                                ELSE semaphore[s]]
    /\ UNCHANGED <<tests, uart, overwritten, semaphoreUART, serviceData, task, fault>>

Timer0AInterruptHandler == Timer0AExpiry(MaxSeqCnt)

\* The UART1 receive interrupt: while characters are available each is
\* stored in lastReceivedByte and newDataAvailable is set, so the last of
\* them stays.  It interrupts the tasks anywhere outside a critical section.
UART1IntHandler ==
    /\ ~fault
    /\ \E chars \in 1..2 : \E last \in Bytes :
           /\ received + chars <= MaxBytes
           /\ received' = received + chars
           /\ lastReceivedByte' = last
    /\ newDataAvailable' = TRUE
    /\ consumers' = {}
    /\ UNCHANGED <<tests, overruns, overwritten, command, seqCnt, abortS, semaphore, semaphoreUART,
                   serviceData, task, fault>>

\* The task starts: InitServiceData(&serviceData, estimatedMaxExecutions).
ServiceInit(s) ==
    /\ Runs(s)
    /\ task[s] = "init"
    /\ serviceData' = [serviceData EXCEPT ![s] = InitServiceData(estimatedMaxExecutions)]
    /\ task' = [task EXCEPT ![s] = "while"]
    /\ UNCHANGED <<tests, uart, overruns, overwritten, seqCnt, abortS, semaphore, semaphoreUART, fault>>

\* while (!abortS)
ServiceWhile(s) ==
    /\ Runs(s)
    /\ task[s] = "while"
    /\ task' = [task EXCEPT ![s] = IF abortS[s] THEN "uart_take" ELSE "take"]
    /\ UNCHANGED <<tests, uart, overruns, overwritten, seqCnt, abortS, semaphore, semaphoreUART, serviceData, fault>>

\* xSemaphoreTake(semaphore, portMAX_DELAY) == pdPASS
ServiceTake(s) ==
    /\ Runs(s)
    /\ task[s] = "take"
    /\ semaphore[s] = 1
    /\ semaphore' = [semaphore EXCEPT ![s] = 0]
    /\ task' = [task EXCEPT ![s] = "start"]
    /\ UNCHANGED <<tests, uart, overruns, overwritten, seqCnt, abortS, semaphoreUART, serviceData, fault>>

\* startTime[serviceCount] = xTaskGetTickCount()
ServiceStart(s) ==
    /\ Runs(s)
    /\ task[s] = "start"
    /\ \E outcome \in StoreOutcomes(serviceData[s], serviceData[s].serviceCount) :
           /\ fault' = Faults(outcome)
           /\ overwritten' = (overwritten \/ Overwrites(outcome))
           /\ task' = IF HaltsAtStore(outcome) THEN task
                      ELSE [task EXCEPT ![s] = "test"]
    /\ UNCHANGED <<tests, uart, overruns, seqCnt, abortS, semaphore, semaphoreUART, serviceData>>

\* if (newDataAvailable)
ServiceTest(s) ==
    /\ Runs(s)
    /\ task[s] = "test"
    /\ task' = [task EXCEPT ![s] = IF newDataAvailable THEN "critical" ELSE "end"]
    /\ UNCHANGED <<tests, uart, overruns, overwritten, seqCnt, abortS, semaphore, semaphoreUART,
                   serviceData, fault>>

\* taskENTER_CRITICAL(); command = lastReceivedByte;
\* newDataAvailable = false; taskEXIT_CRITICAL()
ServiceCritical(s) ==
    /\ Runs(s)
    /\ task[s] = "critical"
    /\ command' = [command EXCEPT ![s] = [byte |-> lastReceivedByte, serial |-> received]]
    /\ newDataAvailable' = FALSE
    /\ task' = [task EXCEPT ![s] = "act"]
    /\ UNCHANGED <<tests, overruns, overwritten, lastReceivedByte, received, consumers, seqCnt, abortS,
                   semaphore, semaphoreUART, serviceData, fault>>

\* The service handles its copy of the byte: service 1 prints it whatever
\* it is; services 2 and 3 stop the motors on 0xAA and set them forward on
\* 0x00; service 4 switches the LED on on 0xAA and off on 0x00.
Acts(s, byte) == s = 1 \/ byte \in {STOP_SIGN, PATH_CLEAR}

ServiceAct(s) ==
    /\ Runs(s)
    /\ task[s] = "act"
    /\ consumers' = IF Acts(s, command[s].byte) /\ command[s].serial = received
                    THEN consumers \cup {s}
                    ELSE consumers
    /\ command' = [command EXCEPT ![s] = NoCommand]
    /\ task' = [task EXCEPT ![s] = "end"]
    /\ UNCHANGED <<tests, overruns, overwritten, newDataAvailable, lastReceivedByte, received, seqCnt, abortS,
                   semaphore, semaphoreUART, serviceData, fault>>

\* endTime[serviceCount] = xTaskGetTickCount(); serviceCount++
ServiceEnd(s) ==
    /\ Runs(s)
    /\ task[s] = "end"
    /\ \E outcome \in StoreOutcomes(serviceData[s], serviceData[s].serviceCount) :
           /\ fault' = Faults(outcome)
           /\ overwritten' = (overwritten \/ Overwrites(outcome))
           /\ serviceData' = IF HaltsAtStore(outcome) THEN serviceData
                             ELSE [serviceData EXCEPT ![s].serviceCount = @ + 1]
           /\ task' = IF HaltsAtStore(outcome) THEN task
                      ELSE [task EXCEPT ![s] = "while"]
    /\ UNCHANGED <<tests, uart, overruns, seqCnt, abortS, semaphore, semaphoreUART>>

\* xSemaphoreTake(semaphoreUART, portMAX_DELAY) == pdPASS
ServiceUartTake(s) ==
    /\ Runs(s)
    /\ task[s] = "uart_take"
    /\ semaphoreUART = 1
    /\ semaphoreUART' = 0
    /\ task' = [task EXCEPT ![s] = "summary"]
    /\ UNCHANGED <<tests, uart, overruns, overwritten, seqCnt, abortS, semaphore, serviceData, fault>>

\* The executions and the summary are printed; xSemaphoreGive(semaphoreUART).
ServiceSummary(s) ==
    /\ Runs(s)
    /\ task[s] = "summary"
    /\ semaphoreUART' = 1
    /\ task' = [task EXCEPT ![s] = "deinit"]
    /\ UNCHANGED <<tests, uart, overruns, overwritten, seqCnt, abortS, semaphore, serviceData, fault>>

\* DeinitServiceData(&serviceData); vTaskDelete(NULL).  A task whose
\* vPortFree never returns stays in it ("stuck"), ready and never deleted.
ServiceDelete(s) ==
    /\ Runs(s)
    /\ task[s] = "deinit"
    /\ \E outcome \in FreeOutcomes(overwritten) :
           /\ fault' = (outcome = "fault")
           /\ serviceData' = IF outcome = "freed"
                             THEN [serviceData EXCEPT ![s].entries = 0]
                             ELSE serviceData
           /\ task' = IF outcome = "freed" THEN [task EXCEPT ![s] = "deleted"]
                      ELSE IF outcome = "stuck" THEN [task EXCEPT ![s] = "stuck"]
                      ELSE task
    /\ UNCHANGED <<tests, uart, overruns, overwritten, seqCnt, abortS, semaphore, semaphoreUART>>

\* One step of the service task s: of its loop, of its handling of a
\* received byte, of what it does once its abort flag ends the loop.
ServiceLoop(s) ==
    \/ ServiceInit(s)
    \/ ServiceWhile(s)
    \/ ServiceTake(s)
    \/ ServiceStart(s)
    \/ ServiceTest(s)
    \/ ServiceEnd(s)

ServiceByte(s) ==
    \/ ServiceCritical(s)
    \/ ServiceAct(s)

ServiceExit(s) ==
    \/ ServiceUartTake(s)
    \/ ServiceSummary(s)
    \/ ServiceDelete(s)

\* A run in which the Jetson sends nothing, to the abort and past it: no
\* receive interrupt comes, so no task finds newDataAvailable set.
RtosNext ==
    \/ Timer0AInterruptHandler
    \/ \E s \in ServiceIds : ServiceLoop(s)
    \/ \E s \in ServiceIds : ServiceExit(s)

RtosSpec == RtosInit /\ [][RtosNext]_vars

\* The first MaxUartSeqCnt sequencer periods of a run in which the Jetson
\* sends up to MaxBytes bytes: no abort flag is set yet, so no task leaves
\* its loop.
UartTimer0A == Timer0AExpiry(MaxUartSeqCnt)

UartNext ==
    \/ UartTimer0A
    \/ UART1IntHandler
    \/ \E s \in ServiceIds : ServiceLoop(s)
    \/ \E s \in ServiceIds : ServiceByte(s)

UartSpec == RtosInit /\ [][UartNext]_vars

\* A step of a task the scheduler runs.
TaskStep == \E s \in ServiceIds : ServiceLoop(s) \/ ServiceExit(s)

\* RtosSpec under fair scheduling: the timer goes on expiring, and while a
\* task can run the scheduler lets a task take its next step.  No sequence
\* of steps leads back to an earlier state (each step moves a task on in
\* its code or increments seqCnt, and each turn of a loop increments
\* serviceCount), so no task that can run is passed over for ever.
RtosFairSpec ==
    /\ RtosSpec
    /\ WF_vars(Timer0AInterruptHandler)
    /\ WF_vars(TaskStep)

\* ------------------------------------------------------------ properties
Services == 0..(numServices - 1)

\* Every deadline is the period.
Implicit == \A k \in Services : deadline[k] = period[k]

\* The index order is rate monotonic.
RmOrdered == \A k \in Services : \A m \in Services : k < m => period[k] <= period[m]

\* The task set is the one given by the three sequences.
IsTaskSet(p, w, d) ==
    /\ numServices = Len(p)
    /\ period = Arr(p) /\ wcet = Arr(w) /\ deadline = Arr(d)

IsEx2 == IsTaskSet(<<2, 5, 7, 13>>, <<1, 1, 1, 2>>, <<2, 5, 7, 13>>)

\* The product of the periods, and the sum of wcet[k]/period[k] times it.
RECURSIVE PeriodProduct(_)
PeriodProduct(k) == IF k < 0 THEN 1 ELSE period[k] * PeriodProduct(k - 1)

RECURSIVE ScaledUtilization(_)
ScaledUtilization(k) ==
    IF k < 0 THEN 0
    ELSE wcet[k] * (PeriodProduct(numServices - 1) \div period[k])
         + ScaledUtilization(k - 1)

\* The total utilization, as a rational number, is at most 1.
UtilizationAtMostOne ==
    ScaledUtilization(numServices - 1) <= PeriodProduct(numServices - 1)

\* There is no service, or a period, a wcet or a deadline is 0.
Invalid ==
    \/ numServices = 0
    \/ \E k \in Services : period[k] = 0 \/ wcet[k] = 0 \/ deadline[k] = 0

Verdicts == {"FEASIBLE", "INFEASIBLE"}

\* The task set is one the tests are specified for: at least one service,
\* and 0 < wcet <= deadline <= period for each.
Valid ==
    /\ numServices >= 1
    /\ \A k \in Services :
           /\ 0 < wcet[k] /\ wcet[k] <= deadline[k] /\ deadline[k] <= period[k]

\* The least integer that is at least a / p.
Ceiling(a, p) == CHOOSE n \in 0..a : n * p >= a /\ (n = 0 \/ (n - 1) * p < a)

\* wcet[0] + ... + wcet[k], and wcet[k] + the sum over j < k of
\* ceiling(a / period[j]) * wcet[j]  (k = m gives the whole right-hand side
\* of the recurrence of task m), in the integers.
RECURSIVE SeedOf(_)
SeedOf(k) == IF k < 0 THEN 0 ELSE wcet[k] + SeedOf(k - 1)

RECURSIVE Interference(_, _)
Interference(k, a) ==
    IF k < 0 THEN 0
    ELSE Ceiling(a, period[k]) * wcet[k] + Interference(k - 1, a)

Recurrence(m, a) == wcet[m] + Interference(m - 1, a)

\* a is the least fixed point of the recurrence of task m from its seed on.
IsResponseTime(m, a) ==
    /\ a >= SeedOf(m)
    /\ a = Recurrence(m, a)
    /\ \A b \in SeedOf(m)..(a - 1) : b # Recurrence(m, b)

\* The response time of task m exists and is within its deadline.
MeetsDeadline(m) == \E a \in SeedOf(m)..deadline[m] : a = Recurrence(m, a)

\* The demand of tasks 0..m up to the time t, in the integers.
RECURSIVE DemandUpTo(_, _, _)
DemandUpTo(j, m, t) ==
    IF j > m THEN 0
    ELSE wcet[j] * Ceiling(t, period[j]) + DemandUpTo(j + 1, m, t)

\* Task m has a scheduling point that carries the demand.
HasSchedulingPoint(m) ==
    \E k \in 0..m : \E l \in 1..(period[m] \div period[k]) :
        DemandUpTo(0, m, l * period[k]) <= l * period[k]

\* C1: on an implicit-deadline task set (wcet <= period, all positive) the
\* completion time test and the scheduling point test return the same
\* verdict.
C1_SameVerdict ==
    (ct # "none" /\ sp # "none" /\ Implicit) => ct = sp

\* C2: completion_time_feasibility returns a verdict on every valid task
\* set: its iteration stops at a fixed point or once the iterate is past
\* the deadline.
C2_CtTerminates == <>(ct # "none")

\* C3: on an implicit-deadline task set in rate-monotonic order, a FEASIBLE
\* from the RM least upper bound test comes with a FEASIBLE from the
\* completion time test.
C3_LubImpliesCompletion ==
    (rm = "FEASIBLE" /\ Implicit /\ RmOrdered) => ct = "FEASIBLE"

C3_Witness ==
    /\ pc = "done" /\ Implicit /\ RmOrdered /\ numServices = 3
    /\ period[0] < period[2]
    /\ rm = "FEASIBLE" /\ ct = "FEASIBLE"

\* C4: on an implicit-deadline task set, an INFEASIBLE from the EDF test
\* comes with an INFEASIBLE from the completion time test.
C4_EdfInfeasibleImpliesCompletion ==
    (edf = "INFEASIBLE" /\ Implicit) => ct = "INFEASIBLE"

\* C5, as claimed: on the reference example the completion time test
\* returns FEASIBLE.
C5_Ex2Feasible ==
    (ct # "none" /\ IsEx2) => ct = "FEASIBLE"

\* C5, amended: on the reference example the completion time test returns
\* INFEASIBLE, the iteration of the last task ending at the fixed point 14,
\* past its deadline 13.
C5_Ex2Infeasible ==
    (ct # "none" /\ IsEx2) => (ct = "INFEASIBLE" /\ i = 3 /\ an = 14)

C5_Witness == IsEx2 /\ pc = "done" /\ ct = "INFEASIBLE"

\* C6: on the reference example the RM least upper bound test returns
\* INFEASIBLE, and the EDF and LLF tests return FEASIBLE.
C6_Ex2Utilization ==
    (pc = "done" /\ IsEx2) =>
        (rm = "INFEASIBLE" /\ edf = "FEASIBLE" /\ llf = "FEASIBLE")

C6_Witness == IsEx2 /\ pc = "done" /\ rm = "INFEASIBLE" /\ edf = "FEASIBLE"

\* C7: on periods (2, 2) with WCETs (1, 2) every test returns INFEASIBLE.
C7_OverloadInfeasible ==
    (pc = "done" /\ IsTaskSet(<<2, 2>>, <<1, 2>>, <<2, 2>>)) =>
        /\ ct = "INFEASIBLE" /\ sp = "INFEASIBLE" /\ rm = "INFEASIBLE"
        /\ edf = "INFEASIBLE" /\ llf = "INFEASIBLE"

C7_Witness ==
    IsTaskSet(<<2, 2>>, <<1, 2>>, <<2, 2>>) /\ pc = "done" /\ sp = "INFEASIBLE"

\* C8: a single service with wcet = period = deadline is FEASIBLE for every
\* test, and a single service is FEASIBLE for the completion time test
\* exactly when wcet <= deadline.
C8_SingleService ==
    (pc = "done" /\ numServices = 1) =>
        /\ ct = "FEASIBLE" <=> wcet[0] <= deadline[0]
        /\ (wcet[0] = period[0] /\ deadline[0] = period[0]) =>
               /\ rm = "FEASIBLE" /\ ct = "FEASIBLE" /\ sp = "FEASIBLE"
               /\ edf = "FEASIBLE" /\ llf = "FEASIBLE"

C8_Witness ==
    /\ numServices = 1 /\ pc = "done"
    /\ period[0] = UMax /\ wcet[0] = UMax /\ deadline[0] = UMax
    /\ rm = "FEASIBLE" /\ ct = "FEASIBLE"

\* C9: the EDF and LLF tests return the same verdict, FEASIBLE exactly when
\* the total utilization is at most 1.
C9_EdfLlfExact ==
    (pc = "done") =>
        /\ edf = llf
        /\ edf = "FEASIBLE" <=> UtilizationAtMostOne

\* C10: the scheduling point test returns no verdict on a task set with a
\* deadline that differs from the period.
C10_RejectsConstrained ==
    (sp # "none" /\ ~Implicit) => sp \notin {"FEASIBLE", "INFEASIBLE"}

\* C11: on a task set with no service, or with a period, a wcet or a
\* deadline of 0, no test returns a verdict.
C11_RejectsInvalid ==
    Invalid =>
        /\ ct \notin Verdicts /\ rm \notin Verdicts /\ edf \notin Verdicts
        /\ llf \notin Verdicts /\ sp \notin Verdicts

\* C12: no test writes to period[], wcet[] or deadline[], and a second call
\* of each test on the same task set returns the verdict of the first call.
C12_ReadOnlyRepeatable ==
    [][/\ period' = period /\ wcet' = wcet /\ deadline' = deadline
       /\ (round' = 2 /\ pc' = "done") =>
              /\ ct' = first'.ct /\ rm' = first'.rm /\ edf' = first'.edf
              /\ llf' = first'.llf /\ sp' = first'.sp]_vars

C12_Witness ==
    /\ round = 2 /\ pc = "done" /\ numServices = 3
    /\ first.ct = "INFEASIBLE" /\ ct = "INFEASIBLE"
    /\ first.rm = "INFEASIBLE" /\ first.edf = "FEASIBLE" /\ edf = "FEASIBLE"

\* C13: on a valid task set, the value completion_time_feasibility compares
\* with deadline[i] is the response time of task i (the least fixed point of
\* its recurrence from the seed on), and the verdict is FEASIBLE exactly when
\* every task has a response time within its deadline.
C13_ResponseTimes ==
    Valid =>
        /\ pc = "ct_if" => IsResponseTime(i, an)
        /\ ct \in Verdicts =>
               (ct = "FEASIBLE" <=> \A m \in Services : MeetsDeadline(m))

\* C14: on a valid task set, scheduling_point_feasibility returns FEASIBLE
\* exactly when every task has a scheduling point l * period[k], with k up
\* to the task and 1 <= l <= floor(period[i] / period[k]), that carries the
\* demand of the tasks up to it.
C14_SchedulingPoints ==
    (sp \in Verdicts /\ Valid) =>
        (sp = "FEASIBLE" <=> \A m \in Services : HasSchedulingPoint(m))

\* C16: on a valid task set the iterates of completion_time_feasibility
\* never decrease: every pass of the do-while loop ends with anext >= an.
C16_IteratesNeverDecrease ==
    [][(Valid /\ pc = "ct_do" /\ pc' \in {"ct_do", "ct_if"}) => an' >= an]_vars

\* C17: completion_time_feasibility takes the tasks in index order, one
\* after the other, goes on to the next task only when the value it has
\* computed for the current one is within the deadline, and returns
\* INFEASIBLE at the first task where it is not, leaving the later tasks
\* untouched.
C17_FirstFailureReturns ==
    [][/\ (i' # i /\ round' = round) =>
              (pc = "ct_if" /\ i' = i + 1 /\ ~(an > deadline[i]))
       /\ (ct = "none" /\ ct' = "INFEASIBLE") =>
              (pc = "ct_if" /\ an > deadline[i] /\ i' = i /\ an' = an)
       /\ (ct \in Verdicts /\ round' = round) =>
              (ct' = ct /\ i' = i /\ an' = an
               /\ pc' \notin {"ct_for", "ct_do", "ct_if"})]_vars

C17_Witness ==
    /\ pc = "done" /\ ct = "INFEASIBLE" /\ numServices = 3 /\ i = 1
    /\ an > deadline[1] /\ wcet[0] <= deadline[0]

\* C18: scheduling_point_feasibility returns, and the points it examines
\* for a task i and a k <= i are l * period[k] with l from 1 up to at most
\* floor(period[i] / period[k]).
C18_BoundedSearch ==
    /\ [](pc = "sp_l" => (1 <= sl /\ sl <= (period[si] \div period[sk]) + 1))
    /\ (pc = "sp") ~> (sp \in Verdicts)

\* An accumulator has gone beyond the range of U32_T, or l beyond INT_MAX.
Overflowed ==
    \/ conv # "unseen" \/ ovf # "unseen"
    \/ \E m \in Services : SeedOf(m) > UMax

\* C19: when an accumulator overflows on a valid task set, the verdict of
\* completion_time_feasibility and of scheduling_point_feasibility is still
\* the one that arithmetic in the integers gives.
C19_OverflowKeepsVerdict ==
    (pc = "done" /\ Valid /\ Overflowed) =>
        /\ ct = "FEASIBLE" <=> \A m \in Services : MeetsDeadline(m)
        /\ sp = "FEASIBLE" <=> \A m \in Services : HasSchedulingPoint(m)

\* The hexadecimal digits of the floor of N * (2^(1/N) - 1) * 2^69, the
\* bound itself to 69 binary places, for N = 2..6.
BoundHex(n) ==
    CASE n = 2 -> <<1, 10, 8, 2, 7, 9, 9, 9, 15, 12, 14, 15, 3, 2, 4, 2, 2, 12>>
        [] n = 3 -> <<1, 8, 15, 3, 13, 1, 13, 9, 5, 0, 10, 15, 4, 1, 4, 12, 13, 7>>
        [] n = 4 -> <<1, 8, 3, 7, 15, 0, 5, 1, 8, 13, 11, 8, 10, 9, 6, 15, 4, 6>>
        [] n = 5 -> <<1, 7, 12, 10, 10, 15, 4, 3, 4, 13, 0, 0, 8, 13, 14, 2, 7, 3>>
        [] n = 6 -> <<1, 7, 8, 3, 4, 1, 2, 13, 5, 14, 1, 0, 15, 14, 1, 0, 14, 9>>

\* Bit j of the floor of N * (2^(1/N) - 1) * 2^FracBits, from the digits h.
BoundBit(h, j) ==
    LET b == j + (69 - FracBits)
    IN  IF b >= 4 * Len(h) THEN 0
        ELSE (h[Len(h) - (b \div 4)] \div 2^(b % 4)) % 2

RECURSIVE BoundLimb(_, _, _)
BoundLimb(h, lo, k) ==
    IF k = 0 THEN 0
    ELSE BoundBit(h, lo) + 2 * BoundLimb(h, lo + 1, k - 1)

\* The floor of N * (2^(1/N) - 1) * 2^FracBits (the bound of one service is 1).
BoundFloor(n) ==
    IF n = 1 THEN DblOne
    ELSE [L \in Limbs |-> BoundLimb(BoundHex(n), (L - 1) * LimbBits, LimbBits)]

\* The sum over the services up to k of the floor of
\* wcet * 2^FracBits / period: U * 2^FracBits lies from it to less than
\* numServices above it.
RECURSIVE QuotientFloors(_)
QuotientFloors(k) ==
    IF k < 0 THEN DblZero
    ELSE AddLimbs(DivSmall(Shifted(wcet[k], FracBits), period[k], NLimbs, 0, DblZero).q,
                  QuotientFloors(k - 1), 1, 0, DblZero)

\* U > N * (2^(1/N) - 1), and U < N * (2^(1/N) - 1), each decided by
\* FracBits binary places.
UtilizationAboveBound ==
    DblLess(BoundFloor(numServices), QuotientFloors(numServices - 1))
UtilizationBelowBound ==
    DblLeq(AddLimbs(QuotientFloors(numServices - 1), Shifted(numServices, 0), 1, 0, DblZero),
           BoundFloor(numServices))

\* C15: for N >= 1 services with positive periods,
\* rate_monotonic_least_upper_bound returns TRUE exactly when
\* U = sum wcet/period is at most N * (2^(1/N) - 1): a set with U below
\* the bound is accepted, a set with U above it is rejected, and one
\* service with wcet <= period is accepted.
C15_ExactlyTheBound ==
    (rm \in Verdicts /\ numServices >= 1 /\ \A k \in Services : period[k] > 0) =>
        /\ UtilizationBelowBound => rm = "FEASIBLE"
        /\ UtilizationAboveBound => rm = "INFEASIBLE"
        /\ (numServices = 1 /\ wcet[0] <= period[0]) => rm = "FEASIBLE"

\* C20: in each of the four service tasks the index serviceCount of the
\* stores to startTime[serviceCount] and endTime[serviceCount] is smaller
\* than the number of entries InitServiceData allocated, at every store
\* from the start of the sequencer on.
C20_IndexWithinAllocation ==
    \A s \in ServiceIds :
        task[s] \in {"start", "end"} =>
            serviceData[s].serviceCount < serviceData[s].entries

\* C21: each byte UART1IntHandler stores is consumed by at most one of the
\* four services: no two services read and act on the same received byte
\* (here the last byte stored).
C21_ConsumedOnce == Cardinality(consumers) <= 1

\* C22: once the sequencer count has reached 1000 every abort flag is set,
\* and under fair scheduling each of the four service tasks eventually
\* leaves its loop, prints its summary under semaphoreUART and deletes
\* itself.
C22_AbortEndsServices ==
    /\ [](seqCnt >= AbortCount => \A s \in ServiceIds : abortS[s])
    /\ (seqCnt >= AbortCount) ~> (\A s \in ServiceIds : task[s] = "deleted")
====
